---- MODULE Spec2Model ----
(***************************************************************************)
(* Model of the cc-hooks orchestrator: the `run` command, the hook         *)
(* executor with its timeout and output limits, the process manager with   *)
(* its shutdown handlers, the stream limiter and the result mapper.        *)
(*                                                                         *)
(* Time is counted in seconds.  A JavaScript `undefined` string-valued     *)
(* field is the string "absent"; an undefined message is the empty         *)
(* sequence; a `null` exit code is NullCode.                               *)
(***************************************************************************)
EXTENDS Integers, Sequences, FiniteSets, TLC

\* ------------------------------------------------------------------ bounds
\* hooks selected for the event
NumHooks == 2
\* largest per-hook timeout, in seconds
MaxTimeout == 1
\* findings in a structured hook's report
MaxFindings == 1
\* limits.maxOutputBytes, scaled down
MaxOutputBytes == 2
\* the largest chunk a child writes or the orchestrator reads at once
MaxChunk == 2

\* --------------------------------------------------------------- constants
\* stands for the JavaScript null of `number | null`; real codes are 0..255
NullCode == 256
DEFAULT_HOOK_PRIORITY == 100
\* the 2000 ms between the polite and the forced kill
Grace == 2
\* the clock stops here
MaxTime == MaxTimeout + Grace + 1
\* a child writes at most one byte more than the cap to a stream
MaxWrite == MaxOutputBytes + 1
EXIT_SUCCESS == 0
EXIT_BLOCKING_ERROR == 2

Absent == "absent"
Undefined == "undefined"

FlowControlAction == {"success", "non-blocking-error", "blocking-error"}

\* exit codes a child is observed with; 3 stands for any code the
\* conventions do not name
ExitCodes == {0, 1, 2, 3}
\* the codes the children of the process model end with
ChildExitCodes == {0, 1, 2}

\* ---------------------------------------------------------- result mapper
\* Number.prototype.toString for a one-digit exit code
CodeStr(c) == <<"0", "1", "2", "3", "4", "5", "6", "7", "8", "9">>[c + 1]

\* result.exitCode?.toString() || '1'
exitCodeKey(code) == IF code = NullCode THEN "1" ELSE CodeStr(code)

\* hook.exitCodeMap[key]; a missing key reads as undefined
Lookup(m, k) == IF k \in DOMAIN m THEN m[k] ELSE Undefined

\* the final fallback used by both contracts when nothing else decides
conventionText(code) ==
  IF code = 0 THEN "success"
  ELSE IF code = 2 THEN "blocking-error"
  ELSE "non-blocking-error"

\* textFlowControl without the 'default' lookup
textFlowControlNoDefault(hook, result) ==
  LET specific == Lookup(hook.exitCodeMap, exitCodeKey(result.exitCode))
  IN  IF specific = Undefined THEN conventionText(result.exitCode)
      ELSE specific

textFlowControl(hook, result) ==
  LET specific == Lookup(hook.exitCodeMap, exitCodeKey(result.exitCode))
      dflt     == Lookup(hook.exitCodeMap, "default")
      chosen   == IF specific = Undefined /\ dflt # Undefined
                  THEN dflt ELSE specific
  IN  IF chosen = Undefined THEN conventionText(result.exitCode) ELSE chosen

mapTextHook(hook, result) ==
  LET m0 == <<hook.message>>
      m1 == IF result.timedOut THEN Append(m0, "(timed out)") ELSE m0
      m2 == IF result.truncated THEN Append(m1, "(output truncated)") ELSE m1
  IN  [flowControl |-> textFlowControl(hook, result),
       message     |-> m2,
       diagnostics |-> FALSE,
       jsonOutput  |-> "undefined",
       trace       |-> <<textFlowControl(hook, result)>>]

\* the verdict mapStructuredHook starts from (lines 591-596)
exitFlowControl(code) ==
  IF code = 2 THEN "blocking-error"
  ELSE IF code # 0 THEN "non-blocking-error"
  ELSE "success"

\* parsed.reason || parsed.message
reasonOrMessage(p) ==
  IF p.reason # Absent THEN <<p.reason>>
  ELSE IF p.message # Absent THEN <<p.message>>
  ELSE <<>>

\* the `decision` rule (lines 608-614): [flow, message]
applyDecision(flow, msg, p) ==
  IF p.decision \in {"block", "blocking-error"}
  THEN [flow |-> "blocking-error", msg |-> reasonOrMessage(p)]
  ELSE IF p.decision = "non-blocking-error"
  THEN [flow |-> "non-blocking-error", msg |-> reasonOrMessage(p)]
  ELSE [flow |-> flow, msg |-> msg]

\* the `continue` rule (lines 617-620)
applyContinue(flow, msg, p) ==
  IF p.continue = "false"
  THEN [flow |-> "blocking-error",
        msg  |-> IF p.stopReason # Absent THEN <<p.stopReason>>
                 ELSE <<"Hook requested stop">>]
  ELSE [flow |-> flow, msg |-> msg]

validFinding(f) ==
  /\ f.file = "string"
  /\ f.line = "number"
  /\ f.message = "string"
  /\ f.severity \in {"error", "warning"}

validControlFlow(cf) ==
  \/ cf.kind = Absent
  \/ /\ cf.kind = "object"
     /\ cf.continue \in {Absent, "true", "false"}
     /\ cf.reason = "string"
     /\ cf.decision \in {Absent, "block"}

isDiagnosticReport(p) ==
  /\ p.success \in {"true", "false"}
  /\ p.findings.isArray
  /\ \A i \in 1..Len(p.findings.items) : validFinding(p.findings.items[i])
  /\ validControlFlow(p.controlFlow)

\* the DiagnosticReport rule (lines 623-634)
applyDiagnostics(flow, p) ==
  IF isDiagnosticReport(p)
  THEN IF p.controlFlow.kind = "object" /\ p.controlFlow.decision = "block"
       THEN "blocking-error"
       ELSE IF p.success = "false" THEN "non-blocking-error"
       ELSE "success"
  ELSE flow

mapStructuredHook(hook, result) ==
  LET f0 == exitFlowControl(result.exitCode)
      p  == result.parsed
      \* JSON.parse succeeded and the value has properties to read
      readable == result.stdoutKind = "object"
      d  == IF readable THEN applyDecision(f0, <<>>, p)
            ELSE [flow |-> f0, msg |-> <<>>]
      c  == IF readable THEN applyContinue(d.flow, d.msg, p) ELSE d
      f3 == IF readable THEN applyDiagnostics(c.flow, p) ELSE c.flow
      m1 == IF result.timedOut /\ c.msg = <<>>
            THEN <<"Hook timed out">> ELSE c.msg
      m2 == IF result.truncated
            THEN IF m1 # <<>> THEN Append(m1, "(output truncated)")
                 ELSE <<"Output truncated">>
            ELSE m1
  IN  [flowControl |-> f3,
       message     |-> m2,
       diagnostics |-> readable /\ isDiagnosticReport(p),
       jsonOutput  |-> IF result.stdoutKind \in {"object", "null"}
                       THEN result.stdoutKind ELSE "undefined",
       trace       |-> IF readable THEN <<f0, d.flow, c.flow, f3>>
                       ELSE <<f0>>]

map(hook, result) ==
  IF hook.outputFormat = "text" THEN mapTextHook(hook, result)
  ELSE mapStructuredHook(hook, result)

\* ------------------------------------------------------------------ state
VARIABLES
  config,             \* config.hooks of the loaded configuration
  hooks,              \* getActiveHooks(config, event): the hooks to run
  pc,                 \* RunCommand.execute: "start", "awaiting", "exited"
  now,                \* the clock, in seconds
  child,              \* per hook: the ChildProcess and the OS process
  run,                \* per hook: the locals of HookExecutor.execute
  results,            \* per hook: the HookResult execute returned
  finished,           \* hooks in the order their execute returned
  processes,          \* keys of ProcessManager.processes
  shutdownInitiated,  \* ProcessManager.shutdownInitiated
  cleanupTimer,       \* deadline of handleShutdown's 2 s wait, if pending
  exitCode,           \* code the orchestrator process exited with
  exitPath,           \* which call ended the process
  winner,             \* name of the hook determineFinalResult chose
  emitted,            \* message outputResult wrote to stderr
  written,            \* per hook and stream: bytes the child has written
  pipe,               \* per hook and stream: bytes written, not yet read
  limiter,            \* per hook and stream: StreamLimiter fields
  collected,          \* per hook and stream: length of stdoutData/stderrData
  mapPhase,           \* ResultMapper driven alone: "idle", "ready", "mapped"
  mapHook,            \* its hook argument
  mapResult,          \* its HookExecutionResult argument
  mapped,             \* the MappedResult it returned
  stdin,              \* what the caller puts on standard input
  layers,             \* the configuration files: global, project, local
  sessionLog,         \* names of hooks with an entry in the session log
  shutdownCalled,     \* HookExecutor.shutdown() has been called
  shutdownTimer,      \* deadline of that call's 2 s wait, if pending
  selected,           \* ConfigLoader driven alone: getActiveHooks' result
  logStep,            \* per hook: how far its logResult call has come
  logFile,            \* the session log file: hooks in the order of their lines
  printed,            \* what outputResult wrote to standard output
  spawned,            \* hooks in the order ProcessManager.spawn started them
  cleaner,            \* per tryCleanup call: where it stands
  lock,               \* the file .cleanup.lock
  files,              \* the session log files of the sessions directory
  sweep,              \* the locals of performCleanup
  sl,                 \* a StreamLimiter driven alone
  installFile,        \* InstallCommand: config.hooks of the configuration file
  installRun,         \* InstallCommand: the last execute and how it ended
  writer              \* ConfigWriter driven alone: the config and the last call

procVars == <<config, hooks, pc, now, child, run, results, finished,
              processes, shutdownInitiated, cleanupTimer, exitCode, exitPath,
              winner, emitted>>
streamVars == <<written, pipe, limiter, collected>>
mapVars == <<mapPhase, mapHook, mapResult, mapped>>
envVars == <<stdin, layers, shutdownCalled, shutdownTimer, selected>>
logVars == <<logStep, logFile, printed, spawned>>
cleanVars == <<cleaner, lock, files, sweep>>
toolVars == <<sl, installFile, installRun, writer>>
vars == <<procVars, streamVars, mapVars, envVars, sessionLog, logVars,
          cleanVars, toolVars>>

Streams == {"stdout", "stderr"}
Hooks == 1..Len(hooks)

\* ------------------------------------------------- selection and ordering
\* a.priority ?? DEFAULT_HOOK_PRIORITY; an absent priority is <<>>
priorityOf(hook) ==
  IF hook.priority = <<>> THEN DEFAULT_HOOK_PRIORITY ELSE hook.priority[1]

\* Array.prototype.sort: element i goes after every element that compares
\* lower and after every equal element that stood before it (stable)
StableSort(s, Cmp(_, _)) ==
  LET n == Len(s)
      rank(i) == 1 + Cardinality({j \in 1..n :
                       \/ Cmp(s[j], s[i]) < 0
                       \/ Cmp(s[j], s[i]) = 0 /\ j < i})
  IN  [k \in 1..n |-> s[CHOOSE i \in 1..n : rank(i) = k]]

\* as priorityCmp, with the operands exchanged
priorityCmpDescending(a, b) == priorityOf(b) - priorityOf(a)

\* (a, b) => aPriority - bPriority
priorityCmp(a, b) == priorityOf(a) - priorityOf(b)

\* the match value RunCommand.execute hands to getActiveHooks
matchValueOf(event) ==
  IF event.hook_event_name \in {"PreToolUse", "PostToolUse"}
  THEN event.tool_name
  ELSE IF event.hook_event_name = "PreCompact" THEN event.trigger
  ELSE IF event.hook_event_name = "SessionStart" THEN event.source
  ELSE Absent

\* `if (matchValue)`: undefined and the empty string are falsy
truthy(str) == str \notin {Absent, ""}

\* matcher.startsWith('^') || matcher.endsWith('$')
hasAnchor(matcher) == matcher \in {"^Write"}

\* the pattern handed to new RegExp: the matcher itself when it carries an
\* anchor, otherwise `^${matcher}$`
anchoredPattern(matcher) ==
  IF hasAnchor(matcher) THEN matcher
  ELSE CASE matcher = "Write"      -> "^Write$"
         [] matcher = "Write.*"    -> "^Write.*$"
         [] matcher = "Edit|Write" -> "^Edit|Write$"
         [] matcher = "["          -> "^[$"
         [] matcher = "startup"    -> "^startup$"
         [] OTHER                  -> matcher

\* new RegExp(pattern) throws on an unterminated character class
regexCompiles(pattern) == pattern # "^[$"

\* the regular expression without the anchors
regexTestUnanchored(pattern, str) ==
  CASE pattern = "^Write$"      -> str \in {"Write", "WriteFile"}
    [] pattern = "^Write.*$"    -> str \in {"Write", "WriteFile"}
    [] pattern = "^Edit|Write$" -> str \in {"Edit", "Write", "WriteFile"}
    [] pattern = "^Write"       -> str \in {"Write", "WriteFile"}
    [] pattern = "^startup$"    -> str = "startup"
    [] OTHER                    -> FALSE

\* regex.test(toolName) for the patterns and names of the model
regexTest(pattern, str) ==
  CASE pattern = "^Write$"      -> str = "Write"
    [] pattern = "^Write.*$"    -> str \in {"Write", "WriteFile"}
    [] pattern = "^Edit|Write$" -> str \in {"Edit", "Write"}
    [] pattern = "^Write"       -> str \in {"Write", "WriteFile"}
    [] pattern = "^startup$"    -> str = "startup"
    [] OTHER                    -> FALSE

matchesTool(matcher, toolName) ==
  IF matcher = Absent THEN TRUE
  ELSE IF matcher = "*" \/ matcher = "" THEN TRUE
  ELSE IF regexCompiles(anchoredPattern(matcher))
       THEN regexTest(anchoredPattern(matcher), toolName)
       ELSE matcher = toolName

matchesValue(matcher, value) ==
  IF matcher = Absent THEN TRUE
  ELSE IF matcher = "*" \/ matcher = "" THEN TRUE
  ELSE matcher = value

\* getActiveHooks up to its sort: the hooks that list the event, filtered
\* by the matcher when a match value is given
eligibleHooks(cfg, event, matchValue) ==
  LET listsEvent(hook) == event \in hook.events
      toolOk(hook) == matchesTool(hook.matcher, matchValue)
      valueOk(hook) == matchesValue(hook.matcher, matchValue)
      byEvent == SelectSeq(cfg, listsEvent)
  IN  IF ~truthy(matchValue) THEN byEvent
      ELSE IF event \in {"PreToolUse", "PostToolUse"}
      THEN SelectSeq(byEvent, toolOk)
      ELSE IF event \in {"PreCompact", "SessionStart"}
      THEN SelectSeq(byEvent, valueOk)
      ELSE byEvent

\* the sort of getActiveHooks, by ascending priority
getActiveHooks(cfg) == StableSort(cfg, priorityCmp)

\* RunCommand.execute, lines 219-229
selectHooks(cfg, event) ==
  getActiveHooks(eligibleHooks(cfg, event.hook_event_name, matchValueOf(event)))

severityOrder(flow) ==
  IF flow = "blocking-error" THEN 0
  ELSE IF flow = "non-blocking-error" THEN 1
  ELSE 2

resultCmp(a, b) ==
  LET severityDiff == severityOrder(a.flowControl) - severityOrder(b.flowControl)
  IN  IF severityDiff # 0 THEN severityDiff
      ELSE priorityOf(a.hook) - priorityOf(b.hook)

\* sortedResults[0]; executeHooks never returns an empty array here
determineFinalResult(rs) == StableSort(rs, resultCmp)[1]

getErrorMessage(result) ==
  IF result.message # <<>> THEN result.message
  ELSE IF result.hook.outputFormat = "text" THEN <<result.hook.message>>
  ELSE IF result.flowControl = "blocking-error"
       THEN <<"Hook execution blocked">>
       ELSE <<"Hook execution failed">>

\* the exit code outputResult returns and the message it writes to stderr
outputResult(result) ==
  IF result.flowControl = "blocking-error"
  THEN [code |-> EXIT_BLOCKING_ERROR, stderr |-> getErrorMessage(result)]
  ELSE IF result.flowControl = "non-blocking-error"
  THEN [code |-> EXIT_SUCCESS, stderr |-> getErrorMessage(result)]
  ELSE [code |-> EXIT_SUCCESS, stderr |-> <<>>]

\* ------------------------------------------------------------ child, run
NoChild == [state |-> "none", killed |-> FALSE, sigterm |-> FALSE,
            sigkill |-> FALSE]

IdleRun == [state |-> "idle", startTime |-> 0, timedOut |-> FALSE,
            truncated |-> FALSE, timeoutHandle |-> {}, killHandle |-> {}]

NoParsed ==
  [decision |-> Absent, reason |-> Absent, message |-> Absent,
   continue |-> Absent, stopReason |-> Absent, success |-> Absent,
   findings |-> [isArray |-> FALSE, items |-> <<>>],
   controlFlow |-> [kind |-> Absent, continue |-> Absent,
                    reason |-> Absent, decision |-> Absent]]

NoResult(hook) ==
  [done |-> FALSE, hook |-> hook, flowControl |-> "success", message |-> <<>>,
   exitCode |-> 0, signal |-> "none", timedOut |-> FALSE, truncated |-> FALSE,
   stdoutLen |-> 0, stderrLen |-> 0, rawOutput |-> "empty",
   jsonOutput |-> "undefined"]

\* result.stdout || result.stderr || '': which stream rawOutput is taken from
rawOutput(stdoutLen, stderrLen) ==
  IF stdoutLen > 0 THEN "stdout"
  ELSE IF stderrLen > 0 THEN "stderr"
  ELSE "empty"

\* handleStructuredOutput: the JSON derived from the hook's stdout, or
\* nothing without a parsed value
handleStructuredOutput(result) ==
  IF result.jsonOutput = "object" THEN "json" ELSE "nothing"

\* console.log(result.rawOutput) under `if (result.rawOutput)`
printRaw(result) ==
  IF result.rawOutput = "empty" THEN "nothing" ELSE result.rawOutput

\* what outputResult writes to standard output: "nothing", the hook's
\* "stdout", the hook's "stderr", or the "json" derived from its stdout
stdoutOf(result, event) ==
  IF /\ event.hook_event_name \in {"UserPromptSubmit", "SessionStart"}
     /\ result.flowControl = "success"
  THEN IF result.hook.outputFormat = "structured"
       THEN handleStructuredOutput(result)
       ELSE printRaw(result)
  ELSE IF result.flowControl # "success" THEN "nothing"
  ELSE IF result.hook.outputFormat = "structured"
          /\ result.jsonOutput = "object"
       THEN handleStructuredOutput(result)
       ELSE printRaw(result)

\* process.kill(-pid, sig): the signal reaches a process that still runs
deliver(c, sig) ==
  IF c.state # "running" THEN c
  ELSE IF sig = "SIGKILL" THEN [c EXCEPT !.sigkill = TRUE]
  ELSE [c EXCEPT !.sigterm = TRUE]

\* ChildProcess.kill(sig): as deliver, and `killed` records that a signal
\* was sent; without a live process it returns false and changes nothing
childKill(c, sig) ==
  IF c.state # "running" THEN c
  ELSE [deliver(c, sig) EXCEPT !.killed = TRUE]

\* exitCode || 0 (executor line 699)
orZero(code) == IF code = NullCode THEN 0 ELSE code

\* ----------------------------------------------------- event, config files
\* a ClaudeHookEvent; a field the payload does not carry is Absent
Event(name, tool, src, active) ==
  [hook_event_name |-> name, session_id |-> "s", transcript_path |-> "t",
   cwd |-> "d", tool_name |-> tool, trigger |-> Absent, source |-> src,
   stop_hook_active |-> active]

\* standard input: closed with a JSON object on it, closed with something
\* JSON.parse rejects ("garbage"), or never closed ("silent")
JsonInput(event) == [kind |-> "json", event |-> event]
NoStdin == JsonInput(Event("Stop", Absent, Absent, Absent))

\* a configuration file that does not exist
MissingFile == [kind |-> "missing", hooks |-> <<>>]
\* a configuration file that is not JSON
MalformedFile == [kind |-> "malformed", hooks |-> <<>>]
ConfigFile(hs) == [kind |-> "config", hooks |-> hs]

LayerNames == {"global", "project", "local"}
NoLayers == [l \in LayerNames |-> MissingFile]

NoSelection == [done |-> FALSE, hooks |-> <<>>]

VALID_EVENTS ==
  {"PreToolUse", "PostToolUse", "Stop", "UserPromptSubmit", "Notification",
   "SubagentStop", "PreCompact", "SessionStart"}

\* the loop guard of RunCommand.execute; undefined and false are falsy
loopGuardStopOnly(event) ==
  event.hook_event_name = "Stop" /\ event.stop_hook_active = "true"

loopGuard(event) ==
  /\ event.hook_event_name \in {"Stop", "SubagentStop"}
  /\ event.stop_hook_active = "true"

\* the first existing file, most specific first; "none" for null
findConfigFile(ls) ==
  IF ls["local"].kind # "missing" THEN "local"
  ELSE IF ls["project"].kind # "missing" THEN "project"
  ELSE IF ls["global"].kind # "missing" THEN "global"
  ELSE "none"

\* validateHook does not throw
validateHook(hook) ==
  /\ hook.command # <<>>
  /\ hook.events # {}
  /\ hook.events \subseteq VALID_EVENTS
  /\ hook.outputFormat \in {"text", "structured"}
  /\ hook.priority # <<>> => hook.priority[1] >= 0
  /\ hook.timeout > 0

\* ConfigLoader.load of an existing file: ok is FALSE when it throws
load(file) ==
  IF file.kind = "malformed" THEN [ok |-> FALSE, hooks |-> <<>>]
  ELSE [ok    |-> \A i \in DOMAIN file.hooks : validateHook(file.hooks[i]),
        hooks |-> file.hooks]

\* ------------------------------------------------------- idle components
\* no file .cleanup.lock
NoLock == [exists |-> FALSE, owner |-> 0, stale |-> FALSE]

LockIdle == lock = NoLock

\* performCleanup not called
IdleSweep == [phase |-> "idle", validFiles |-> <<>>, next |-> 1,
              currentTotalSize |-> 0, errors |-> FALSE]

SweepIdle ==
  /\ files = <<>>
  /\ sweep = IdleSweep

\* new StreamLimiter(maxBytes, onLimitExceeded): nothing written yet.
\* `writes` are the chunk lengths written so far, `calls` the writes at
\* which onLimitExceeded was invoked, `forwarded` the bytes pushed
\* downstream by each write, `ended` whether push(null) was called
NewLimiter(maxBytes) ==
  [maxBytes |-> maxBytes, bytesRead |-> 0, killed |-> FALSE,
   writes |-> <<>>, calls |-> <<>>, forwarded |-> <<>>, ended |-> FALSE]

\* no bundle under the name given to install, in the templates directory
\* or as a local path
NoBundle == <<>>

\* InstallCommand.execute not called
NoInstall == [status |-> "none", builtin |-> NoBundle, local |-> NoBundle,
              before |-> <<>>]

\* createEmptyConfig, and no ConfigWriter call made yet: `config` is the
\* hooks of the configuration the caller holds, `given` the object passed
\* to the last call as it was before the call and `passed` that object
\* after the call
NoWriter == [config |-> <<>>, op |-> "none", name |-> 0, hook |-> <<>>,
             threw |-> FALSE, given |-> <<>>, passed |-> <<>>]

ToolsIdle ==
  /\ sl = NewLimiter(0)
  /\ installFile = <<>>
  /\ installRun = NoInstall
  /\ writer = NoWriter

\* ---------------------------------------------------------------- initial
\* the two contracts as the configuration writes them
HookShapes ==
  { [outputFormat |-> "text", exitCodeMap |-> ("0" :> "success"),
     message |-> "text hook failed"],
    [outputFormat |-> "structured", exitCodeMap |-> <<>>,
     message |-> Absent] }

Priorities == {<<>>, <<1>>}

HookChoices ==
  { s @@ [priority |-> p, timeout |-> t] :
      s \in HookShapes, p \in Priorities, t \in 1..MaxTimeout }

\* configurations of n hooks; a hook's name is its place in the file
Configs(n) ==
  { [i \in 1..n |-> c[i] @@ [name |-> i]] : c \in [1..n -> HookChoices] }

NoMapHook == [outputFormat |-> "text", exitCodeMap |-> <<>>, message |-> Absent]

NoMapResult ==
  [exitCode |-> 0, timedOut |-> FALSE, truncated |-> FALSE,
   stdoutKind |-> "empty", parsed |-> NoParsed]

InitRun(n) ==
  /\ config \in Configs(n)
  /\ hooks = getActiveHooks(config)
  /\ pc = "start"
  /\ now = 0
  /\ child = [h \in 1..n |-> NoChild]
  /\ run = [h \in 1..n |-> IdleRun]
  /\ results = [h \in 1..n |-> NoResult(hooks[h])]
  /\ finished = <<>>
  /\ processes = {}
  /\ shutdownInitiated = FALSE
  /\ cleanupTimer = {}
  /\ exitCode = 0
  /\ exitPath = "none"
  /\ winner = 0
  /\ emitted = <<>>
  /\ written = [h \in 1..n |-> [s \in Streams |-> 0]]
  /\ pipe = [h \in 1..n |-> [s \in Streams |-> 0]]
  /\ limiter = [h \in 1..n |-> [s \in Streams |->
                                  [bytesRead |-> 0, killed |-> FALSE]]]
  /\ collected = [h \in 1..n |-> [s \in Streams |-> 0]]
  /\ stdin = NoStdin
  /\ layers = NoLayers
  /\ sessionLog = {}
  /\ shutdownCalled = FALSE
  /\ shutdownTimer = {}
  /\ selected = NoSelection
  /\ logStep = [h \in 1..n |-> "none"]
  /\ logFile = <<>>
  /\ printed = "nothing"
  /\ spawned = <<>>
  /\ cleaner = [h \in 1..n |-> "idle"]
  /\ SweepIdle
  /\ ToolsIdle

\* no lock file is left in the sessions directory
InitProc(n) == InitRun(n) /\ LockIdle

InitMapIdle ==
  /\ mapPhase = "idle"
  /\ mapHook = NoMapHook
  /\ mapResult = NoMapResult
  /\ mapped = map(NoMapHook, NoMapResult)

Init == InitProc(NumHooks) /\ InitMapIdle

\* ---------------------------------------------------------------- actions
\* ProcessManager.cleanup up to its `await`: SIGTERM to every tracked group
cleanupPhase1(ch, procs) ==
  [h \in DOMAIN ch |-> IF h \in procs THEN deliver(ch[h], "SIGTERM") ELSE ch[h]]

\* ProcessManager.cleanup after its `await`: SIGKILL unless `killed`
cleanupPhase2(ch, procs) ==
  [h \in DOMAIN ch |->
     IF h \in procs /\ ~ch[h].killed THEN deliver(ch[h], "SIGKILL") ELSE ch[h]]

\* process.exit(code): the 'exit' listener runs cleanup, which cannot get
\* past its `await` before the process is gone
ProcessExit(code, path, ch, procs) ==
  /\ pc' = "exited"
  /\ exitCode' = code
  /\ exitPath' = path
  /\ child' = cleanupPhase1(ch, procs)

\* the result executeHooks substitutes when execute throws
thrownResult(hook) ==
  [NoResult(hook) EXCEPT !.done = TRUE,
                         !.flowControl = "non-blocking-error",
                         !.message = <<"spawn failed">>,
                         !.exitCode = 0 - 1]

\* the results in the order the hooks finished
collectResultsByCompletion == [i \in 1..Len(finished) |-> results[finished[i]]]

\* Promise.all keeps the order of `hooks`, whatever the completion order
collectResults == [i \in Hooks |-> results[i]]

\* executeHooks: every execute runs to its `await` in turn.  spawn either
\* starts the child ("ok"), reports the failure by an 'error' event and
\* no 'exit' event ("error", e.g. ENOENT), or throws ("throws")
ExecuteHooks ==
  /\ pc = "start"
  /\ \E outcome \in [Hooks -> {"ok", "error", "throws"}] :
       LET thrown(h) == outcome[h] = "throws" \/ shutdownInitiated
           threw == {h \in Hooks : thrown(h)}
       IN
       /\ child' = [h \in Hooks |->
            IF thrown(h) THEN child[h]
            ELSE IF outcome[h] = "ok" THEN [child[h] EXCEPT !.state = "running"]
            ELSE [child[h] EXCEPT !.state = "failed"]]
       /\ processes' = {h \in Hooks : ~thrown(h) /\ outcome[h] = "ok"}
       /\ run' = [h \in Hooks |->
            IF thrown(h) THEN [run[h] EXCEPT !.state = "done"]
            ELSE [run[h] EXCEPT !.state = "awaiting", !.startTime = now,
                                !.timeoutHandle = {now + hooks[h].timeout}]]
       /\ results' = [h \in Hooks |->
            IF thrown(h) THEN thrownResult(hooks[h]) ELSE results[h]]
       /\ finished' = [k \in 1..Cardinality(threw) |->
                         CHOOSE h \in threw :
                           Cardinality({g \in threw : g < h}) = k - 1]
       \* hooks.map: the children start in the order of `hooks`
       /\ spawned' = LET started == {h \in Hooks : ~thrown(h) /\ outcome[h] = "ok"}
                     IN  [k \in 1..Cardinality(started) |->
                            CHOOSE h \in started :
                              Cardinality({g \in started : g < h}) = k - 1]
  \* cleanupIfNeeded, first thing in every execute: tryCleanup runs up to
  \* its `await fs.mkdir`
  /\ cleaner' = [h \in Hooks |-> "mkdir"]
  /\ pc' = "awaiting"
  /\ UNCHANGED <<config, hooks, now, shutdownInitiated, cleanupTimer,
                 exitCode, exitPath, winner, emitted>>
  /\ UNCHANGED <<streamVars, mapVars, envVars, sessionLog, logStep, logFile,
                 printed, lock, files, sweep, toolVars>>

\* how a running child can end: by SIGKILL once that was sent; otherwise
\* with a code of its own, or by SIGTERM if that was sent and not handled
exitStatuses(c) ==
  IF c.sigkill THEN {[code |-> NullCode, signal |-> "SIGKILL"]}
  ELSE {[code |-> e, signal |-> "none"] : e \in ChildExitCodes}
       \cup (IF c.sigterm THEN {[code |-> NullCode, signal |-> "SIGTERM"]}
             ELSE {})

\* the child ends and its 'exit' event resumes execute: timers cleared,
\* the result built, mapped and returned.  The runtime dispatches the
\* reads of what the child wrote before it reports the child's exit, so
\* the pipes are empty by then
ChildExit(h) ==
  /\ pc # "exited"
  /\ child[h].state = "running"
  /\ run[h].state = "awaiting"
  /\ \A s \in Streams : pipe[h][s] = 0
  /\ \E st \in exitStatuses(child[h]) :
       LET executionResult ==
             [exitCode   |-> orZero(st.code),
              timedOut   |-> run[h].timedOut,
              truncated  |-> run[h].truncated,
              stdoutKind |-> IF collected[h]["stdout"] = 0
                             THEN "empty" ELSE "garbage",
              parsed     |-> NoParsed]
           m == map(hooks[h], executionResult)
       IN  results' = [results EXCEPT ![h] =
             [done |-> TRUE, hook |-> hooks[h],
              flowControl |-> m.flowControl, message |-> m.message,
              exitCode |-> st.code, signal |-> st.signal,
              timedOut |-> run[h].timedOut, truncated |-> run[h].truncated,
              stdoutLen |-> collected[h]["stdout"],
              stderrLen |-> collected[h]["stderr"],
              rawOutput |-> rawOutput(collected[h]["stdout"],
                                      collected[h]["stderr"]),
              jsonOutput |-> m.jsonOutput]]
  /\ child' = [child EXCEPT ![h].state = "exited"]
  /\ run' = [run EXCEPT ![h].state = "done", ![h].timeoutHandle = {},
                        ![h].killHandle = {}]
  /\ finished' = Append(finished, h)
  \* logResult: the entry is handed to the session file, best effort;
  \* the call runs up to its `await fs.mkdir`
  /\ sessionLog' = sessionLog \cup {hooks[h].name}
  /\ logStep' = [logStep EXCEPT ![h] = "mkdir"]
  /\ UNCHANGED <<config, hooks, pc, now, processes, shutdownInitiated,
                 cleanupTimer, exitCode, exitPath, winner, emitted>>
  /\ UNCHANGED <<streamVars, mapVars, envVars, logFile, printed, spawned,
                 cleanVars, toolVars>>

\* the 'close' event: ProcessManager forgets the child
ChildClose(h) ==
  /\ pc # "exited"
  /\ child[h].state = "exited"
  /\ child' = [child EXCEPT ![h].state = "closed"]
  /\ processes' = processes \ {h}
  /\ UNCHANGED <<config, hooks, pc, now, run, results, finished,
                 shutdownInitiated, cleanupTimer, exitCode, exitPath,
                 winner, emitted>>
  /\ UNCHANGED <<streamVars, mapVars, envVars, sessionLog, logVars,
                 cleanVars, toolVars>>

\* the timeout callback of execute
TimeoutFire(h) ==
  /\ pc # "exited"
  /\ run[h].state = "awaiting"
  /\ now \in run[h].timeoutHandle
  /\ run' = [run EXCEPT ![h].timedOut = TRUE, ![h].timeoutHandle = {},
                        ![h].killHandle = {now + Grace}]
  /\ child' = [child EXCEPT ![h] = childKill(child[h], "SIGTERM")]
  /\ UNCHANGED <<config, hooks, pc, now, results, finished, processes,
                 shutdownInitiated, cleanupTimer, exitCode, exitPath,
                 winner, emitted>>
  /\ UNCHANGED <<streamVars, mapVars, envVars, sessionLog, logVars,
                 cleanVars, toolVars>>

\* the callback armed by the timeout callback: `if (!child.killed)`
forceKill(c) == IF ~c.killed THEN childKill(c, "SIGKILL") ELSE c

KillTimerFire(h) ==
  /\ pc # "exited"
  /\ run[h].state = "awaiting"
  /\ now \in run[h].killHandle
  /\ run' = [run EXCEPT ![h].killHandle = {}]
  /\ child' = [child EXCEPT ![h] = forceKill(child[h])]
  /\ UNCHANGED <<config, hooks, pc, now, results, finished, processes,
                 shutdownInitiated, cleanupTimer, exitCode, exitPath,
                 winner, emitted>>
  /\ UNCHANGED <<streamVars, mapVars, envVars, sessionLog, logVars,
                 cleanVars, toolVars>>

\* a second passes; due timers fire first and SIGKILL takes no time
Tick ==
  /\ pc = "awaiting"
  /\ now < MaxTime
  /\ now \notin cleanupTimer
  /\ now \notin shutdownTimer
  /\ \A h \in Hooks :
       /\ now \notin run[h].timeoutHandle
       /\ now \notin run[h].killHandle
       /\ ~(child[h].state = "running" /\ child[h].sigkill)
  /\ now' = now + 1
  /\ UNCHANGED <<config, hooks, pc, child, run, results, finished, processes,
                 shutdownInitiated, cleanupTimer, exitCode, exitPath,
                 winner, emitted>>
  /\ UNCHANGED <<streamVars, mapVars, envVars, sessionLog, logVars,
                 cleanVars, toolVars>>

\* Promise.all resolved: determineFinalResult, outputResult, process.exit
Finish ==
  /\ pc = "awaiting"
  /\ \A h \in Hooks : run[h].state = "done"
  /\ LET finalResult == determineFinalResult(collectResults)
         out == outputResult(finalResult)
     IN  /\ winner' = finalResult.hook.name
         /\ emitted' = out.stderr
         /\ printed' = stdoutOf(finalResult, stdin.event)
         /\ ProcessExit(out.code, "normal", child, processes)
  /\ UNCHANGED <<config, hooks, now, run, results, finished, processes,
                 shutdownInitiated, cleanupTimer>>
  /\ UNCHANGED <<streamVars, mapVars, envVars, sessionLog, logStep, logFile,
                 spawned, cleanVars, toolVars>>

\* SIGTERM or SIGINT reaches the orchestrator: handleShutdown up to the
\* 2 s wait of cleanup, or through to process.exit(0) with nothing tracked
ReceiveSignal ==
  /\ pc # "exited"
  /\ ~shutdownInitiated
  /\ shutdownInitiated' = TRUE
  /\ IF processes = {}
     THEN /\ ProcessExit(0, "signal", child, processes)
          /\ UNCHANGED cleanupTimer
     ELSE /\ child' = cleanupPhase1(child, processes)
          /\ cleanupTimer' = {now + Grace}
          /\ UNCHANGED <<pc, exitCode, exitPath>>
  /\ UNCHANGED <<config, hooks, now, run, results, finished, processes,
                 winner, emitted>>
  /\ UNCHANGED <<streamVars, mapVars, envVars, sessionLog, logVars,
                 cleanVars, toolVars>>

\* the wait is over: force kill, clear the map, process.exit(0)
CleanupFire ==
  /\ pc # "exited"
  /\ now \in cleanupTimer
  /\ cleanupTimer' = {}
  /\ processes' = {}
  /\ ProcessExit(0, "signal", cleanupPhase2(child, processes), {})
  /\ UNCHANGED <<config, hooks, now, run, results, finished,
                 shutdownInitiated, winner, emitted>>
  /\ UNCHANGED <<streamVars, mapVars, envVars, sessionLog, logVars,
                 cleanVars, toolVars>>

\* the 'uncaughtException' listener: cleanup is not awaited
UncaughtException ==
  /\ pc # "exited"
  /\ ProcessExit(1, "exception", cleanupPhase1(child, processes), processes)
  /\ UNCHANGED <<config, hooks, now, run, results, finished, processes,
                 shutdownInitiated, cleanupTimer, winner, emitted>>
  /\ UNCHANGED <<streamVars, mapVars, envVars, sessionLog, logVars,
                 cleanVars, toolVars>>

\* nothing is left to wait for but an execute whose child never emits
\* 'exit': the event loop empties and the process ends with code 0
LoopDrain ==
  /\ pc = "awaiting"
  /\ cleanupTimer = {}
  /\ \E h \in Hooks : run[h].state = "awaiting"
  /\ \A h \in Hooks :
       /\ child[h].state \in {"none", "failed", "closed"}
       /\ run[h].timeoutHandle = {}
       /\ run[h].killHandle = {}
  /\ ProcessExit(0, "drain", child, processes)
  /\ UNCHANGED <<config, hooks, now, run, results, finished, processes,
                 shutdownInitiated, cleanupTimer, winner, emitted>>
  /\ UNCHANGED <<streamVars, mapVars, envVars, sessionLog, logVars,
                 cleanVars, toolVars>>

Next ==
  \/ ExecuteHooks
  \/ \E h \in Hooks : ChildExit(h)
  \/ \E h \in Hooks : ChildClose(h)
  \/ \E h \in Hooks : TimeoutFire(h)
  \/ \E h \in Hooks : KillTimerFire(h)
  \/ Tick
  \/ Finish
  \/ ReceiveSignal
  \/ CleanupFire
  \/ UncaughtException
  \/ LoopDrain

Spec == Init /\ [][Next]_vars

\* --------------------------------------------------------- output streams
\* the child writes n bytes to one of its streams
ChildWrite(h, s, n) ==
  /\ pc # "exited"
  /\ child[h].state = "running"
  /\ ~child[h].sigkill
  /\ written[h][s] + n <= MaxWrite
  /\ written' = [written EXCEPT ![h][s] = @ + n]
  /\ pipe' = [pipe EXCEPT ![h][s] = @ + n]
  /\ UNCHANGED <<limiter, collected, procVars, mapVars, envVars, sessionLog, logVars,
                 cleanVars, toolVars>>

\* as limitExceeded, with the cap itself counted as exceeding
limitExceededAtCap(bytesRead) == bytesRead >= MaxOutputBytes

\* this.bytesRead > this.maxBytes
limitExceeded(bytesRead) == bytesRead > MaxOutputBytes

\* a chunk of n bytes reaches StreamLimiter._transform; what it pushes is
\* appended to stdoutData or stderrData; the callback given by execute
\* sets `truncated` and kills the child
PipeRead(h, s, n) ==
  /\ pc # "exited"
  /\ run[h].state = "awaiting"
  /\ n <= pipe[h][s]
  /\ pipe' = [pipe EXCEPT ![h][s] = @ - n]
  /\ IF limiter[h][s].killed
     THEN UNCHANGED <<limiter, collected, run, child>>
     ELSE IF limitExceeded(limiter[h][s].bytesRead + n)
     THEN /\ limiter' = [limiter EXCEPT ![h][s] =
                           [bytesRead |-> @.bytesRead + n, killed |-> TRUE]]
          /\ run' = [run EXCEPT ![h].truncated = TRUE]
          /\ child' = [child EXCEPT ![h] = childKill(child[h], "SIGKILL")]
          /\ UNCHANGED collected
     ELSE /\ limiter' = [limiter EXCEPT ![h][s].bytesRead = @ + n]
          /\ collected' = [collected EXCEPT ![h][s] = @ + n]
          /\ UNCHANGED <<run, child>>
  /\ UNCHANGED <<written, config, hooks, pc, now, results, finished,
                 processes, shutdownInitiated, cleanupTimer, exitCode,
                 exitPath, winner, emitted, mapVars, envVars, sessionLog, logVars,
                 cleanVars, toolVars>>

\* one hook whose child writes to stdout and stderr
InitStream == InitProc(1) /\ InitMapIdle

NextStream ==
  \/ Next
  \/ \E h \in Hooks, s \in Streams, n \in 1..MaxChunk : ChildWrite(h, s, n)
  \/ \E h \in Hooks, s \in Streams, n \in 1..MaxChunk : PipeRead(h, s, n)

SpecStream == InitStream /\ [][NextStream]_vars

\* ------------------------------------------------------------ aggregation
\* runs in which every hook ends before its timeout and no signal arrives
InitAggregate ==
  /\ Init
  /\ \A i \in 1..NumHooks : config[i].timeout = MaxTimeout

NextAggregate ==
  \/ ExecuteHooks
  \/ \E h \in Hooks : ChildExit(h)
  \/ \E h \in Hooks : ChildClose(h)
  \/ Finish

SpecAggregate == InitAggregate /\ [][NextAggregate]_vars

\* ------------------------------------------------ the result mapper alone
\* exit_code_map: any of these keys, each mapped to any verdict
MapKeys == {"0", "1", "2", "default"}
ExitCodeMaps == UNION { [K -> FlowControlAction] : K \in SUBSET MapKeys }

TextMapHooks ==
  { [outputFormat |-> "text", exitCodeMap |-> m, message |-> "text hook failed"] :
      m \in ExitCodeMaps }

StructuredMapHook ==
  [outputFormat |-> "structured", exitCodeMap |-> <<>>, message |-> Absent]

FindingKinds ==
  { [file |-> "string", line |-> "number", message |-> "string",
     severity |-> "error"],
    [file |-> "string", line |-> "string", message |-> "string",
     severity |-> "error"] }

FindingLists == UNION { [1..n -> FindingKinds] : n \in 0..MaxFindings }

FindingsValues ==
  {[isArray |-> FALSE, items |-> <<>>]}
    \cup {[isArray |-> TRUE, items |-> l] : l \in FindingLists}

ControlFlowValues ==
  { [kind |-> Absent, continue |-> Absent, reason |-> Absent,
     decision |-> Absent],
    [kind |-> "string", continue |-> Absent, reason |-> Absent,
     decision |-> Absent],
    [kind |-> "object", continue |-> Absent, reason |-> "string",
     decision |-> "allow"] }
    \cup { [kind |-> "object", continue |-> Absent, reason |-> r,
            decision |-> d] : r \in {"string", Absent}, d \in {Absent, "block"} }

ParsedObjects ==
  [decision    : {Absent, "block", "blocking-error", "non-blocking-error",
                  "approve"},
   reason      : {Absent, "why"},
   message     : {Absent, "msg"},
   continue    : {Absent, "true", "false"},
   stopReason  : {Absent, "disallowed"},
   success     : {Absent, "true", "false"},
   findings    : FindingsValues,
   controlFlow : ControlFlowValues]

\* what the mapper is handed: stdout empty, not JSON, the JSON literal
\* null, or a JSON object
MapResults ==
  [exitCode : ExitCodes \cup {NullCode}, timedOut : BOOLEAN,
   truncated : BOOLEAN, stdoutKind : {"empty", "garbage", "null"},
   parsed : {NoParsed}]
    \cup
  [exitCode : {0, 1, 2, NullCode}, timedOut : BOOLEAN,
   truncated : BOOLEAN, stdoutKind : {"object"}, parsed : ParsedObjects]

InitMapper ==
  /\ InitProc(0)
  /\ mapPhase = "ready"
  /\ \/ /\ mapHook \in TextMapHooks
        /\ mapResult \in {r \in MapResults : r.stdoutKind # "object"}
     \/ /\ mapHook = StructuredMapHook
        /\ mapResult \in MapResults
  /\ mapped = map(NoMapHook, NoMapResult)

\* ResultMapper.map
Map ==
  /\ mapPhase = "ready"
  /\ mapPhase' = "mapped"
  /\ mapped' = map(mapHook, mapResult)
  /\ UNCHANGED <<mapHook, mapResult, procVars, streamVars, envVars, sessionLog, logVars,
                 cleanVars, toolVars>>

NextMapper == Map

SpecMapper == InitMapper /\ [][NextMapper]_vars

\* --------------------------------------------- the executor's own interface
\* HookExecutor.execute called for one hook, up to its `await`
Execute(h) ==
  /\ pc \in {"start", "awaiting"}
  /\ run[h].state = "idle"
  /\ \E outcome \in {"ok", "error", "throws"} :
       LET thrown == outcome = "throws" \/ shutdownInitiated
       IN
       /\ child' = [child EXCEPT ![h].state =
            IF thrown THEN @ ELSE IF outcome = "ok" THEN "running" ELSE "failed"]
       /\ processes' = IF ~thrown /\ outcome = "ok"
                       THEN processes \cup {h} ELSE processes
       /\ run' = [run EXCEPT ![h] =
            IF thrown THEN [@ EXCEPT !.state = "done"]
            ELSE [@ EXCEPT !.state = "awaiting", !.startTime = now,
                           !.timeoutHandle = {now + hooks[h].timeout}]]
       /\ results' = [results EXCEPT ![h] =
            IF thrown THEN thrownResult(hooks[h]) ELSE @]
       /\ finished' = IF thrown THEN Append(finished, h) ELSE finished
       /\ spawned' = IF ~thrown /\ outcome = "ok"
                     THEN Append(spawned, h) ELSE spawned
  /\ cleaner' = [cleaner EXCEPT ![h] = "mkdir"]
  /\ pc' = "awaiting"
  /\ UNCHANGED <<config, hooks, now, shutdownInitiated, cleanupTimer,
                 exitCode, exitPath, winner, emitted>>
  /\ UNCHANGED <<streamVars, mapVars, envVars, sessionLog, logStep, logFile,
                 printed, lock, files, sweep, toolVars>>

\* HookExecutor.shutdown: ProcessManager.cleanup up to its `await`, or to
\* its end with nothing tracked
Shutdown ==
  /\ pc # "exited"
  /\ ~shutdownCalled
  /\ shutdownCalled' = TRUE
  /\ IF processes = {}
     THEN UNCHANGED <<child, shutdownTimer>>
     ELSE /\ child' = cleanupPhase1(child, processes)
          /\ shutdownTimer' = {now + Grace}
  /\ UNCHANGED <<config, hooks, pc, now, run, results, finished, processes,
                 shutdownInitiated, cleanupTimer, exitCode, exitPath,
                 winner, emitted>>
  /\ UNCHANGED <<streamVars, mapVars, stdin, layers, selected, sessionLog, logVars,
                 cleanVars, toolVars>>

\* the rest of that cleanup: force kill, clear the map
ShutdownResume ==
  /\ pc # "exited"
  /\ now \in shutdownTimer
  /\ shutdownTimer' = {}
  /\ child' = cleanupPhase2(child, processes)
  /\ processes' = {}
  /\ UNCHANGED <<config, hooks, pc, now, run, results, finished,
                 shutdownInitiated, cleanupTimer, exitCode, exitPath,
                 winner, emitted>>
  /\ UNCHANGED <<streamVars, mapVars, stdin, layers, selected, sessionLog,
                 shutdownCalled, logVars, cleanVars, toolVars>>

\* structured hooks with the default priority
InitExecutor ==
  /\ Init
  /\ \A i \in 1..NumHooks :
       config[i].outputFormat = "structured" /\ config[i].priority = <<>>

NextExecutor ==
  \/ \E h \in Hooks : Execute(h)
  \/ Shutdown
  \/ ShutdownResume
  \/ \E h \in Hooks : ChildExit(h)
  \/ \E h \in Hooks : ChildClose(h)
  \/ \E h \in Hooks : TimeoutFire(h)
  \/ \E h \in Hooks : KillTimerFire(h)
  \/ Tick
  \/ ReceiveSignal
  \/ CleanupFire

SpecExecutor == InitExecutor /\ [][NextExecutor]_vars

\* ------------------------------------------------- the run from its start
\* nothing read yet, no hook selected
NothingRead ==
  /\ config = <<>>
  /\ hooks = <<>>
  /\ pc = "read"
  /\ now = 0
  /\ child = <<>>
  /\ run = <<>>
  /\ results = <<>>
  /\ finished = <<>>
  /\ processes = {}
  /\ shutdownInitiated = FALSE
  /\ cleanupTimer = {}
  /\ exitCode = 0
  /\ exitPath = "none"
  /\ winner = 0
  /\ emitted = <<>>
  /\ written = <<>>
  /\ pipe = <<>>
  /\ limiter = <<>>
  /\ collected = <<>>
  /\ sessionLog = {}
  /\ shutdownCalled = FALSE
  /\ shutdownTimer = {}
  /\ selected = NoSelection
  /\ logStep = <<>>
  /\ logFile = <<>>
  /\ printed = "nothing"
  /\ spawned = <<>>

InitRead ==
  /\ NothingRead
  /\ cleaner = <<>>
  /\ LockIdle
  /\ SweepIdle
  /\ ToolsIdle

\* readStdin's 5 s timer fires before standard input ends: handleError
StdinTimeout ==
  /\ pc = "read"
  /\ ProcessExit(1, "input", child, processes)
  /\ UNCHANGED <<config, hooks, now, run, results, finished, processes,
                 shutdownInitiated, cleanupTimer, winner, emitted>>
  /\ UNCHANGED <<streamVars, mapVars, envVars, sessionLog, logVars,
                 cleanVars, toolVars>>

\* standard input ends: RunCommand.execute from the parse of the payload
\* to the selection of the hooks; executeHooks follows in the same turn
StdinEnd ==
  /\ pc = "read"
  /\ stdin.kind # "silent"
  /\ LET event  == stdin.event
         path   == findConfigFile(layers)
         loaded == load(layers[path])
         hs     == selectHooks(loaded.hooks, event)
         stop(code, why) ==
           /\ ProcessExit(code, why, child, processes)
           /\ UNCHANGED <<config, hooks, run, results, streamVars, logStep,
                          cleaner>>
     IN  IF stdin.kind = "garbage" THEN stop(1, "input")
         ELSE IF loopGuard(event) THEN stop(EXIT_SUCCESS, "guard")
         ELSE IF path = "none" THEN stop(EXIT_SUCCESS, "noconfig")
         ELSE IF ~loaded.ok THEN stop(1, "config")
         ELSE IF hs = <<>>
         THEN /\ ProcessExit(EXIT_SUCCESS, "nohooks", child, processes)
              /\ config' = loaded.hooks
              /\ UNCHANGED <<hooks, run, results, streamVars, logStep,
                             cleaner>>
         ELSE /\ config' = loaded.hooks
              /\ hooks' = hs
              /\ pc' = "start"
              /\ child' = [h \in DOMAIN hs |-> NoChild]
              /\ run' = [h \in DOMAIN hs |-> IdleRun]
              /\ results' = [h \in DOMAIN hs |-> NoResult(hs[h])]
              /\ written' = [h \in DOMAIN hs |-> [st \in Streams |-> 0]]
              /\ pipe' = [h \in DOMAIN hs |-> [st \in Streams |-> 0]]
              /\ limiter' = [h \in DOMAIN hs |-> [st \in Streams |->
                               [bytesRead |-> 0, killed |-> FALSE]]]
              /\ collected' = [h \in DOMAIN hs |-> [st \in Streams |-> 0]]
              /\ logStep' = [h \in DOMAIN hs |-> "none"]
              /\ cleaner' = [h \in DOMAIN hs |-> "idle"]
              /\ UNCHANGED <<exitCode, exitPath>>
  /\ UNCHANGED <<now, finished, processes, shutdownInitiated, cleanupTimer,
                 winner, emitted>>
  /\ UNCHANGED <<mapVars, envVars, sessionLog, logFile, printed, spawned,
                 lock, files, sweep, toolVars>>

NextRun ==
  \/ StdinTimeout
  \/ StdinEnd
  \/ ExecuteHooks
  \/ \E h \in Hooks : ChildExit(h)
  \/ \E h \in Hooks : ChildClose(h)
  \/ Finish

\* a hook as a configuration file of the given layer writes it; without a
\* command it is one validateHook rejects
LayerHook(layer, name, events, matcher, valid) ==
  [name |-> name, command |-> IF valid THEN <<layer>> ELSE <<>>,
   events |-> events, matcher |-> matcher, outputFormat |-> "structured",
   exitCodeMap |-> <<>>, message |-> Absent, priority |-> <<>>,
   timeout |-> MaxTimeout]

\* ---- the event varies, one configuration file
EventInputs ==
  { [kind |-> k, event |-> NoStdin.event] : k \in {"silent", "garbage"} }
    \cup
  { JsonInput(Event(n, Absent, Absent, a)) :
      n \in {"Stop", "SubagentStop", "PreToolUse"},
      a \in {Absent, "true", "false"} }
    \cup
  { JsonInput([NoStdin.event EXCEPT ![f] = Absent]) :
      f \in {"hook_event_name", "session_id", "transcript_path", "cwd"} }

EventConfigs ==
  { [i \in 1..NumHooks |-> LayerHook("project", i, e[i], Absent, TRUE)] :
      e \in [1..NumHooks -> {{"Stop", "SubagentStop"}, {"PreToolUse"}}] }

InitEvent ==
  /\ InitRead
  /\ InitMapIdle
  /\ stdin \in EventInputs
  /\ \E c \in EventConfigs :
       layers = [NoLayers EXCEPT !["project"] = ConfigFile(c)]

SpecEvent == InitEvent /\ [][NextRun]_vars

\* ---- the configuration files vary, the event is a Stop event
LayerFiles(layer) ==
  LET choices == { LayerHook(layer, n, {"Stop"}, Absent, v) :
                     n \in 1..NumHooks, v \in BOOLEAN }
  IN  {MissingFile, MalformedFile}
        \cup { ConfigFile(hs) :
                 hs \in UNION { [1..k -> choices] : k \in 0..NumHooks } }

InitConfig ==
  /\ InitRead
  /\ InitMapIdle
  /\ stdin = NoStdin
  /\ layers \in [global : LayerFiles("global"), project : LayerFiles("project"),
                 local : LayerFiles("local")]

SpecConfig == InitConfig /\ [][NextRun]_vars

\* ---------------------------------------------- the hook selector alone
SelectMatchers ==
  {Absent, "", "*", "Write", "Write.*", "Edit|Write", "^Write", "[", "startup"}

SelectConfigs ==
  LET choices == { LayerHook("project", 1, {e}, m, TRUE) :
                     e \in {"PreToolUse", "SessionStart", "Stop"},
                     m \in SelectMatchers }
  IN  { [i \in 1..NumHooks |-> [c[i] EXCEPT !.name = i]] :
          c \in [1..NumHooks -> choices] }

SelectEvents ==
  { Event("PreToolUse", t, Absent, Absent) :
      t \in {Absent, "", "Write", "WriteFile", "Edit", "["} }
    \cup { Event("SessionStart", Absent, src, Absent) :
             src \in {Absent, "startup", "resume"} }
    \cup { Event("Stop", Absent, Absent, Absent) }

InitSelect ==
  /\ InitRead
  /\ InitMapIdle
  /\ stdin \in { JsonInput(e) : e \in SelectEvents }
  /\ \E c \in SelectConfigs :
       layers = [NoLayers EXCEPT !["project"] = ConfigFile(c)]

\* the match value and getActiveHooks, as RunCommand.execute calls them
Select ==
  /\ ~selected.done
  /\ selected' =
       [done  |-> TRUE,
        hooks |-> selectHooks(load(layers[findConfigFile(layers)]).hooks,
                              stdin.event)]
  /\ UNCHANGED <<procVars, streamVars, mapVars, sessionLog, stdin, layers,
                 shutdownCalled, shutdownTimer, logVars, cleanVars, toolVars>>

NextSelect == Select

SpecSelect == InitSelect /\ [][NextSelect]_vars

\* ---------------------------------------------------- the session log
\* callbacks of file operations are dispatched while the process lives and
\* its event loop turns: once the last execute has returned, the run goes
\* on to process.exit without another turn
ioTurn ==
  \/ pc \in {"read", "start"}
  \/ pc = "awaiting" /\ \E g \in Hooks : run[g].state = "awaiting"

\* as ignoreLoggingError, with the rejection of logResult passed on to the
\* caller of execute
ignoreLoggingErrorRethrown(result) == thrownResult(result.hook)

\* `.catch(() => {})` on the logResult call: the rejection is dropped and
\* the result execute returned stands
ignoreLoggingError(result) == result

\* logResult resumes after `await fs.mkdir`: appendFile is issued, or the
\* rejection ends logResult and is swallowed by the catch of execute
LogMkdir(h) ==
  /\ ioTurn
  /\ logStep[h] = "mkdir"
  /\ \E ok \in BOOLEAN :
       /\ logStep' = [logStep EXCEPT ![h] = IF ok THEN "append" ELSE "failed"]
       /\ results' = IF ok THEN results
                     ELSE [results EXCEPT ![h] = ignoreLoggingError(@)]
  /\ UNCHANGED <<config, hooks, pc, now, child, run, finished, processes,
                 shutdownInitiated, cleanupTimer, exitCode, exitPath,
                 winner, emitted>>
  /\ UNCHANGED <<streamVars, mapVars, envVars, sessionLog, logFile,
                 printed, spawned, cleanVars, toolVars>>

\* fs.appendFile settles: the line is in the file, or the rejection is
\* swallowed
LogAppend(h) ==
  /\ ioTurn
  /\ logStep[h] = "append"
  /\ \E ok \in BOOLEAN :
       /\ logStep' = [logStep EXCEPT ![h] = IF ok THEN "done" ELSE "failed"]
       /\ logFile' = IF ok THEN Append(logFile, h) ELSE logFile
       /\ results' = IF ok THEN results
                     ELSE [results EXCEPT ![h] = ignoreLoggingError(@)]
  /\ UNCHANGED <<config, hooks, pc, now, child, run, finished, processes,
                 shutdownInitiated, cleanupTimer, exitCode, exitPath,
                 winner, emitted>>
  /\ UNCHANGED <<streamVars, mapVars, envVars, sessionLog, printed,
                 spawned, cleanVars, toolVars>>

\* a run with its session log
NextLog ==
  \/ ExecuteHooks
  \/ \E h \in Hooks : ChildExit(h)
  \/ \E h \in Hooks : ChildClose(h)
  \/ Finish
  \/ \E h \in Hooks : LogMkdir(h)
  \/ \E h \in Hooks : LogAppend(h)

\* structured hooks with the default priority
InitLog == InitExecutor

SpecLog == InitLog /\ [][NextLog]_vars

\* one hook more: two runs can end while a third is still awaited
InitLogRace ==
  /\ InitProc(NumHooks + 1)
  /\ InitMapIdle
  /\ \A i \in DOMAIN config :
       config[i].outputFormat = "structured" /\ config[i].priority = <<>>

SpecLogRace == InitLogRace /\ [][NextLog]_vars

\* ------------------------------------------------------ the cleanup lock
\* tryCleanup calls that compete for .cleanup.lock
NumCleaners == 2

\* a lock file another invocation left behind: written less than
\* CLEANUP_INTERVAL ago, or longer ago
FreshLock == [exists |-> TRUE, owner |-> 0, stale |-> FALSE]
StaleLock == [exists |-> TRUE, owner |-> 0, stale |-> TRUE]

\* cleanupIfNeeded called by the execute of another invocation: tryCleanup
\* up to its `await fs.mkdir`
TryCleanup(c) ==
  /\ cleaner[c] = "idle"
  /\ cleaner' = [cleaner EXCEPT ![c] = "mkdir"]
  /\ UNCHANGED <<procVars, streamVars, mapVars, envVars, sessionLog, logVars,
                 lock, files, sweep, toolVars>>

\* fs.mkdir settles; a rejection lands in the catch of the first try block,
\* after which the lock is written
CleanerMkdir(c) ==
  /\ ioTurn
  /\ cleaner[c] = "mkdir"
  /\ \E ok \in BOOLEAN :
       cleaner' = [cleaner EXCEPT ![c] = IF ok THEN "stat" ELSE "write"]
  /\ UNCHANGED <<procVars, streamVars, mapVars, envVars, sessionLog, logVars,
                 lock, files, sweep, toolVars>>

\* fs.stat settles: without a lock file it rejects; a recent lock ends the
\* call; a stale lock is to be removed
afterStat(l) ==
  IF ~l.exists THEN "write"
  ELSE IF ~l.stale THEN "returned"
  ELSE "unlink"

CleanerStat(c) ==
  /\ ioTurn
  /\ cleaner[c] = "stat"
  /\ cleaner' = [cleaner EXCEPT ![c] = afterStat(lock)]
  /\ UNCHANGED <<procVars, streamVars, mapVars, envVars, sessionLog, logVars,
                 lock, files, sweep, toolVars>>

\* fs.unlink(lockPath) settles: the file at that path is removed,
\* whichever call wrote it; a rejection is caught
CleanerUnlink(c) ==
  /\ ioTurn
  /\ cleaner[c] = "unlink"
  /\ \E ok \in BOOLEAN :
       lock' = IF ok THEN NoLock ELSE lock
  /\ cleaner' = [cleaner EXCEPT ![c] = "write"]
  /\ UNCHANGED <<procVars, streamVars, mapVars, envVars, sessionLog, logVars,
                 files, sweep, toolVars>>

\* writeFile with flag 'wx' creates the file only when none exists
lockCreated(l, ok) == ok /\ ~l.exists

\* fs.writeFile settles: with the lock the cleanup is scheduled by
\* setTimeout(0); without it the call returns
CleanerWrite(c) ==
  /\ ioTurn
  /\ cleaner[c] = "write"
  /\ \E ok \in BOOLEAN :
       IF lockCreated(lock, ok)
       THEN /\ lock' = [exists |-> TRUE, owner |-> c, stale |-> FALSE]
            /\ cleaner' = [cleaner EXCEPT ![c] = "timer"]
       ELSE /\ cleaner' = [cleaner EXCEPT ![c] = "returned"]
            /\ UNCHANGED lock
  /\ UNCHANGED <<procVars, streamVars, mapVars, envVars, sessionLog, logVars,
                 files, sweep, toolVars>>

\* the timer fires: performCleanup starts
CleanerStart(c) ==
  /\ ioTurn
  /\ cleaner[c] = "timer"
  /\ cleaner' = [cleaner EXCEPT ![c] = "cleaning"]
  /\ UNCHANGED <<procVars, streamVars, mapVars, envVars, sessionLog, logVars,
                 lock, files, sweep, toolVars>>

\* performCleanup settles (it never rejects): fs.unlink(lockPath) is issued
CleanerFinish(c) ==
  /\ ioTurn
  /\ cleaner[c] = "cleaning"
  /\ cleaner' = [cleaner EXCEPT ![c] = "release"]
  /\ UNCHANGED <<procVars, streamVars, mapVars, envVars, sessionLog, logVars,
                 lock, files, sweep, toolVars>>

\* that unlink settles: the file at lockPath is removed, whichever call
\* wrote it; a rejection is ignored
CleanerRelease(c) ==
  /\ ioTurn
  /\ cleaner[c] = "release"
  /\ \E ok \in BOOLEAN :
       lock' = IF ok THEN NoLock ELSE lock
  /\ cleaner' = [cleaner EXCEPT ![c] = "done"]
  /\ UNCHANGED <<procVars, streamVars, mapVars, envVars, sessionLog, logVars,
                 files, sweep, toolVars>>

\* concurrent invocations, each with one tryCleanup call; the lock file is
\* absent or was left behind by an invocation that exited holding it
InitLock ==
  /\ NothingRead
  /\ InitMapIdle
  /\ stdin = NoStdin
  /\ layers = NoLayers
  /\ cleaner = [c \in 1..NumCleaners |-> "idle"]
  /\ lock \in {NoLock, FreshLock, StaleLock}
  /\ SweepIdle
  /\ ToolsIdle

NextLock ==
  \/ \E c \in DOMAIN cleaner : TryCleanup(c)
  \/ \E c \in DOMAIN cleaner : CleanerMkdir(c)
  \/ \E c \in DOMAIN cleaner : CleanerStat(c)
  \/ \E c \in DOMAIN cleaner : CleanerUnlink(c)
  \/ \E c \in DOMAIN cleaner : CleanerWrite(c)
  \/ \E c \in DOMAIN cleaner : CleanerStart(c)
  \/ \E c \in DOMAIN cleaner : CleanerFinish(c)
  \/ \E c \in DOMAIN cleaner : CleanerRelease(c)

SpecLock == InitLock /\ [][NextLock]_vars

\* a run with its session log and the tryCleanup call of every execute;
\* the lock file is absent or was left behind by an earlier invocation
InitBestEffort ==
  /\ InitRun(NumHooks)
  /\ InitMapIdle
  /\ lock \in {NoLock, StaleLock}
  /\ \A i \in DOMAIN config :
       config[i].outputFormat = "structured" /\ config[i].priority = <<>>

NextBestEffort ==
  \/ ExecuteHooks
  \/ \E h \in Hooks : ChildExit(h)
  \/ Finish
  \/ \E h \in Hooks : LogMkdir(h)
  \/ \E h \in Hooks : LogAppend(h)
  \/ \E c \in DOMAIN cleaner : CleanerMkdir(c)
  \/ \E c \in DOMAIN cleaner : CleanerStat(c)
  \/ \E c \in DOMAIN cleaner : CleanerUnlink(c)
  \/ \E c \in DOMAIN cleaner : CleanerWrite(c)
  \/ \E c \in DOMAIN cleaner : CleanerStart(c)
  \/ \E c \in DOMAIN cleaner : CleanerFinish(c)
  \/ \E c \in DOMAIN cleaner : CleanerRelease(c)

SpecBestEffort == InitBestEffort /\ [][NextBestEffort]_vars

\* ---------------------------------------------------- the retention sweep
\* session log files in the sessions directory
NumFiles == 3

\* 7 days, in days
MAX_AGE == 7
\* 500 MB, in units of 100 MB
MAX_TOTAL_SIZE == 5
\* Date.now() when performCleanup runs, in days
SweepNow == 10
\* modification times, in days: older than MAX_AGE, exactly MAX_AGE old,
\* and recent
FileTimes == {1, 3, 8, 9}
\* sizes, in units of 100 MB
FileSizes == {1, 3}

\* currentTotalSize: the sizes of the files of `list`, added up
RECURSIVE totalSize(_)
totalSize(list) ==
  IF list = <<>> THEN 0 ELSE Head(list).size + totalSize(Tail(list))

\* (a, b) => a.mtime - b.mtime
mtimeCmp(a, b) == a.mtime - b.mtime

\* as shouldDeleteForAge, with a file of exactly MAX_AGE counted as old
shouldDeleteForAgeInclusive(now_, file) == now_ - file.mtime >= MAX_AGE

\* age > this.MAX_AGE
shouldDeleteForAge(now_, file) == now_ - file.mtime > MAX_AGE

\* currentTotalSize > this.MAX_TOTAL_SIZE
shouldDeleteForSize(currentTotalSize) == currentTotalSize > MAX_TOTAL_SIZE

\* the entries fs.stat produced, without the files whose stat failed
statted(fs, bad) ==
  LET info == [i \in DOMAIN fs |-> [name |-> i, size |-> fs[i].size,
                                    mtime |-> fs[i].mtime]]
      ok(f) == f.name # bad
  IN  SelectSeq(info, ok)

\* performCleanup up to its loop: readdir, stat of every file, sort by
\* mtime, total size.  readdir may fail, which ends the cleanup; the stat
\* of one file may fail, which drops the file from the list
SweepStart ==
  /\ sweep.phase = "idle"
  /\ files # <<>>
  /\ \/ sweep' = [sweep EXCEPT !.phase = "done", !.errors = TRUE]
     \/ \E bad \in 0..Len(files) :
          LET validFiles == StableSort(statted(files, bad), mtimeCmp)
          IN  sweep' = [phase            |-> "loop",
                        validFiles       |-> validFiles,
                        next             |-> 1,
                        currentTotalSize |-> totalSize(validFiles),
                        errors           |-> bad # 0]
  /\ UNCHANGED <<procVars, streamVars, mapVars, envVars, sessionLog, logVars,
                 cleaner, lock, files, toolVars>>

\* one turn of the loop: the file is unlinked when it is too old or the
\* total is too large; a failed unlink is ignored
SweepFile ==
  /\ sweep.phase = "loop"
  /\ sweep.next <= Len(sweep.validFiles)
  /\ LET file == sweep.validFiles[sweep.next]
         wanted == \/ shouldDeleteForAge(SweepNow, file)
                   \/ shouldDeleteForSize(sweep.currentTotalSize)
     IN  \E ok \in BOOLEAN :
           /\ files' = IF wanted /\ ok
                       THEN [files EXCEPT ![file.name].exists = FALSE]
                       ELSE files
           /\ sweep' = [sweep EXCEPT
                 !.next = @ + 1,
                 !.currentTotalSize = IF wanted /\ ok THEN @ - file.size ELSE @,
                 !.errors = @ \/ (wanted /\ ~ok)]
  /\ UNCHANGED <<procVars, streamVars, mapVars, envVars, sessionLog, logVars,
                 cleaner, lock, toolVars>>

\* the loop is over: performCleanup resolves
SweepEnd ==
  /\ sweep.phase = "loop"
  /\ sweep.next > Len(sweep.validFiles)
  /\ sweep' = [sweep EXCEPT !.phase = "done"]
  /\ UNCHANGED <<procVars, streamVars, mapVars, envVars, sessionLog, logVars,
                 cleaner, lock, files, toolVars>>

SessionFiles ==
  UNION { [1..n -> [mtime : FileTimes, size : FileSizes, exists : {TRUE}]] :
            n \in 1..NumFiles }

InitSweep ==
  /\ NothingRead
  /\ InitMapIdle
  /\ stdin = NoStdin
  /\ layers = NoLayers
  /\ cleaner = <<>>
  /\ LockIdle
  /\ files \in SessionFiles
  /\ sweep = IdleSweep
  /\ ToolsIdle

NextSweep ==
  \/ SweepStart
  \/ SweepFile
  \/ SweepEnd

SpecSweep == InitSweep /\ [][NextSweep]_vars

\* ------------------------------------------------ the stream limiter alone
\* chunks written to one StreamLimiter
NumWrites == 4

\* as overLimit, with a count equal to the cap counted as exceeding it
overLimitInclusive(bytesRead, maxBytes) == bytesRead >= maxBytes

\* this.bytesRead > this.maxBytes
overLimit(bytesRead, maxBytes) == bytesRead > maxBytes

\* _transform(chunk): a killed limiter drops the chunk; otherwise the
\* chunk is counted, and either the limit is exceeded (killed is set,
\* onLimitExceeded is called, the readable side is ended) or the chunk is
\* pushed
Transform(n) ==
  /\ Len(sl.writes) < NumWrites
  /\ LET k == Len(sl.writes) + 1
     IN  IF sl.killed
         THEN sl' = [sl EXCEPT !.writes = Append(@, n),
                               !.forwarded = Append(@, 0)]
         ELSE IF overLimit(sl.bytesRead + n, sl.maxBytes)
         THEN sl' = [sl EXCEPT !.bytesRead = @ + n,
                               !.killed = TRUE,
                               !.calls = Append(@, k),
                               !.ended = TRUE,
                               !.writes = Append(@, n),
                               !.forwarded = Append(@, 0)]
         ELSE sl' = [sl EXCEPT !.bytesRead = @ + n,
                               !.writes = Append(@, n),
                               !.forwarded = Append(@, n)]
  /\ UNCHANGED <<procVars, streamVars, mapVars, envVars, sessionLog, logVars,
                 cleanVars, installFile, installRun, writer>>

InitLimiter ==
  /\ NothingRead
  /\ InitMapIdle
  /\ stdin = NoStdin
  /\ layers = NoLayers
  /\ cleaner = <<>>
  /\ LockIdle
  /\ SweepIdle
  /\ sl \in {NewLimiter(maxBytes) : maxBytes \in 0..MaxOutputBytes}
  /\ installFile = <<>>
  /\ installRun = NoInstall
  /\ writer = NoWriter

NextLimiter == \E n \in 0..MaxChunk : Transform(n)

SpecLimiter == InitLimiter /\ [][NextLimiter]_vars

\* ------------------------------------------------------ the install command
\* hook files in a bundle directory
MaxBundle == 2

\* a bundle directory is its .json files in sorted order, each holding a
\* hook definition that validateHookDefinition accepts or rejects; the
\* hook of the k-th file is named `<bundle>:k`
Bundles == UNION { [1..n -> BOOLEAN] : n \in 0..MaxBundle }

\* the loop over hookFiles: every file is parsed, prefixed and validated;
\* the first failure throws
loadBundle(hookFiles, origin) ==
  IF \A k \in DOMAIN hookFiles : hookFiles[k]
  THEN [ok |-> TRUE,
        hooks |-> [k \in DOMAIN hookFiles |-> [name |-> k, origin |-> origin]]]
  ELSE [ok |-> FALSE, hooks |-> <<>>]

\* loadBuiltInTemplate: null without a bundle of that name or without
\* files in it, and null as well when the loop threw, since the outer
\* catch logs the error and returns null
loadBuiltInTemplate(builtin) ==
  IF builtin = NoBundle THEN [found |-> FALSE, hooks |-> <<>>]
  ELSE LET loaded == loadBundle(builtin, "builtin")
       IN  [found |-> loaded.ok, hooks |-> loaded.hooks]

\* loadLocalHook on a directory: throws without files or with a file
\* that fails
loadLocalHook(local) ==
  IF local = NoBundle THEN [ok |-> FALSE, hooks |-> <<>>]
  ELSE loadBundle(local, "local")

\* resolveHookSource: the built-in template first, then the local path
resolveHookSource(builtin, local) ==
  LET builtInHook == loadBuiltInTemplate(builtin)
  IN  IF builtInHook.found THEN [ok |-> TRUE, hooks |-> builtInHook.hooks]
      ELSE loadLocalHook(local)

\* config.hooks after the loop of execute over hooksToInstall: a hook of
\* a name already there is replaced in place, another is pushed
RECURSIVE installAll(_, _)
installAll(cfgHooks, hooksToInstall) ==
  IF hooksToInstall = <<>> THEN cfgHooks
  ELSE LET hookDef == Head(hooksToInstall)
           existing == {i \in DOMAIN cfgHooks : cfgHooks[i].name = hookDef.name}
           merged == IF existing = {} THEN Append(cfgHooks, hookDef)
                     ELSE [i \in DOMAIN cfgHooks |->
                             IF i = CHOOSE j \in existing :
                                      \A k \in existing : j <= k
                             THEN hookDef ELSE cfgHooks[i]]
       IN  installAll(merged, Tail(hooksToInstall))

\* `existingHook && !options.force` with a single hook to install
conflicts(cfgHooks, hooksToInstall, force) ==
  /\ Len(hooksToInstall) = 1
  /\ ~force
  /\ \E i \in DOMAIN cfgHooks : cfgHooks[i].name = hooksToInstall[1].name

\* InstallCommand.execute(source, {force}): resolve, load the
\* configuration, merge, and write the file once at the end; every throw
\* on the way leaves the file alone
Install(force) ==
  /\ installRun.status = "none"
  /\ LET result == resolveHookSource(installRun.builtin, installRun.local)
     IN  IF ~result.ok \/ conflicts(installFile, result.hooks, force)
         THEN /\ installRun' = [installRun EXCEPT !.status = "failed"]
              /\ UNCHANGED installFile
         ELSE /\ installRun' = [installRun EXCEPT !.status = "installed"]
              /\ installFile' = installAll(installFile, result.hooks)
  /\ UNCHANGED <<procVars, streamVars, mapVars, envVars, sessionLog, logVars,
                 cleanVars, sl, writer>>

\* configuration files with hooks installed earlier, one of them under
\* the name of the bundle's first hook
InstalledBefore ==
  { <<>>,
    <<[name |-> 1, origin |-> "old"]>>,
    <<[name |-> 0, origin |-> "old"], [name |-> 1, origin |-> "old"]>> }

InitInstall ==
  /\ NothingRead
  /\ InitMapIdle
  /\ stdin = NoStdin
  /\ layers = NoLayers
  /\ cleaner = <<>>
  /\ LockIdle
  /\ SweepIdle
  /\ sl = NewLimiter(0)
  /\ installFile \in InstalledBefore
  /\ \E b \in Bundles, l \in Bundles :
       installRun = [status |-> "none", builtin |-> b, local |-> l,
                     before |-> installFile]
  /\ writer = NoWriter

NextInstall == \E force \in BOOLEAN : Install(force)

SpecInstall == InitInstall /\ [][NextInstall]_vars

\* ------------------------------------------------------- the config writer
\* hook names the calls choose from
NumNames == 2

HookNames == 1..NumNames

\* hook definitions: a name and the rest of the definition
WriterHooks == [name : HookNames, body : {"a", "b"}]

\* as addHook, without the check for a name conflict
addHookUnchecked(cfgHooks, hook) ==
  [threw |-> FALSE, returned |-> Append(cfgHooks, hook), passed |-> cfgHooks]

\* addHook(config, hook): throws on a name conflict, otherwise returns a
\* new object with a new hooks array
addHook(cfgHooks, hook) ==
  IF \E i \in DOMAIN cfgHooks : cfgHooks[i].name = hook.name
  THEN [threw |-> TRUE, returned |-> <<>>, passed |-> cfgHooks]
  ELSE [threw |-> FALSE, returned |-> Append(cfgHooks, hook),
        passed |-> cfgHooks]

\* removeHook(config, name): filters into a new array and throws when
\* nothing was filtered out
removeHook(cfgHooks, name) ==
  LET keep(h) == h.name # name
      filteredHooks == SelectSeq(cfgHooks, keep)
  IN  IF Len(filteredHooks) = Len(cfgHooks)
      THEN [threw |-> TRUE, returned |-> <<>>, passed |-> cfgHooks]
      ELSE [threw |-> FALSE, returned |-> filteredHooks, passed |-> cfgHooks]

\* updateHook(config, name, updatedHook): throws without a hook of that
\* name or when the new name is taken, otherwise replaces the hook in a
\* copy of the array
updateHook(cfgHooks, name, updatedHook) ==
  LET found == {i \in DOMAIN cfgHooks : cfgHooks[i].name = name}
  IN  IF found = {}
      THEN [threw |-> TRUE, returned |-> <<>>, passed |-> cfgHooks]
      ELSE IF /\ updatedHook.name # name
              /\ \E i \in DOMAIN cfgHooks : cfgHooks[i].name = updatedHook.name
      THEN [threw |-> TRUE, returned |-> <<>>, passed |-> cfgHooks]
      ELSE LET hookIndex == CHOOSE i \in found : \A j \in found : i <= j
           IN  [threw |-> FALSE,
                returned |-> [cfgHooks EXCEPT ![hookIndex] = updatedHook],
                passed |-> cfgHooks]

\* the caller goes on with the returned configuration, or with the one it
\* had when the call threw
called(op, name, hook, out) ==
  [config |-> IF out.threw THEN out.passed ELSE out.returned,
   op |-> op, name |-> name, hook |-> hook, threw |-> out.threw,
   given |-> writer.config, passed |-> out.passed]

AddHook(hook) ==
  /\ writer' = called("addHook", hook.name, hook, addHook(writer.config, hook))
  /\ UNCHANGED <<procVars, streamVars, mapVars, envVars, sessionLog, logVars,
                 cleanVars, sl, installFile, installRun>>

RemoveHook(name) ==
  /\ writer' = called("removeHook", name, <<>>, removeHook(writer.config, name))
  /\ UNCHANGED <<procVars, streamVars, mapVars, envVars, sessionLog, logVars,
                 cleanVars, sl, installFile, installRun>>

UpdateHook(name, updatedHook) ==
  /\ writer' = called("updateHook", name, updatedHook,
                      updateHook(writer.config, name, updatedHook))
  /\ UNCHANGED <<procVars, streamVars, mapVars, envVars, sessionLog, logVars,
                 cleanVars, sl, installFile, installRun>>

InitWriter ==
  /\ NothingRead
  /\ InitMapIdle
  /\ stdin = NoStdin
  /\ layers = NoLayers
  /\ cleaner = <<>>
  /\ LockIdle
  /\ SweepIdle
  /\ ToolsIdle

NextWriter ==
  \/ \E hook \in WriterHooks : AddHook(hook)
  \/ \E name \in HookNames : RemoveHook(name)
  \/ \E name \in HookNames, updatedHook \in WriterHooks :
       UpdateHook(name, updatedHook)

SpecWriter == InitWriter /\ [][NextWriter]_vars

\* ================================================================= properties

\* C8: in the structured contract the rules for decision, continue and the
\* DiagnosticReport only move the verdict toward blocking: no rule replaces
\* the verdict the exit code or an earlier rule produced with a less severe
\* one.
StructuredRulesOnlyStrengthen ==
  (mapPhase = "mapped" /\ mapHook.outputFormat = "structured") =>
    \A i \in 1..Len(mapped.trace) : \A j \in i..Len(mapped.trace) :
      severityOrder(mapped.trace[j]) <= severityOrder(mapped.trace[i])

\* C9: a structured hook that exits 0 and prints a JSON object whose
\* continue field is false is mapped to blocking-error, its message is the
\* object's stopReason when it has one, and the orchestrator's exit code
\* for that result is 2, whatever other fields the object carries.
ContinueFalseBlocks ==
  (/\ mapPhase = "mapped"
   /\ mapHook.outputFormat = "structured"
   /\ mapResult.exitCode = 0
   /\ mapResult.stdoutKind = "object"
   /\ mapResult.parsed.continue = "false") =>
    /\ mapped.flowControl = "blocking-error"
    /\ mapResult.parsed.stopReason # Absent =>
         /\ mapped.message # <<>>
         /\ Head(mapped.message) = mapResult.parsed.stopReason
    /\ outputResult([flowControl |-> mapped.flowControl,
                     message |-> mapped.message,
                     hook |-> mapHook]).code = EXIT_BLOCKING_ERROR

\* C10: for a text hook and an integer exit code the verdict is
\* exit_code_map[code as string] when that key exists, otherwise
\* exit_code_map["default"] when that key exists, otherwise success for 0,
\* blocking-error for 2 and non-blocking-error for any other code.
TextVerdictFollowsMap ==
  (/\ mapPhase = "mapped"
   /\ mapHook.outputFormat = "text"
   /\ mapResult.exitCode # NullCode) =>
    LET m    == mapHook.exitCodeMap
        code == mapResult.exitCode
        key  == CodeStr(code)
    IN  mapped.flowControl =
          IF key \in DOMAIN m THEN m[key]
          ELSE IF "default" \in DOMAIN m THEN m["default"]
          ELSE IF code = 0 THEN "success"
          ELSE IF code = 2 THEN "blocking-error"
          ELSE "non-blocking-error"

\* C10 witness: exit code 3 has no key of its own and the map's default
\* decides
TextVerdictFollowsMapWitness ==
  /\ mapPhase = "mapped"
  /\ mapHook.outputFormat = "text"
  /\ mapResult.exitCode = 3
  /\ DOMAIN mapHook.exitCodeMap = {"0", "default"}
  /\ mapHook.exitCodeMap["default"] = "blocking-error"
  /\ mapped.flowControl = "blocking-error"

\* C1: the orchestrator process exits only after every child it spawned
\* has exited or has been sent SIGKILL, on every exit path.
NoOrphans ==
  pc = "exited" =>
    \A h \in Hooks : child[h].state = "running" => child[h].sigkill

\* C2: a hook run whose child was spawned returns from execute no later
\* than the hook's timeout plus the 2 s grace period after it started.
BoundedTime ==
  \A h \in Hooks :
    (pc # "exited" /\ run[h].state = "awaiting" /\ child[h].state = "running")
      => now <= run[h].startTime + hooks[h].timeout + Grace

\* C3: once the timeout fired the run is marked timed_out and the child
\* has been sent SIGTERM; once the 2 s after that are over and the child
\* still runs, it has been sent SIGKILL.
TwoPhaseKill ==
  \A h \in Hooks :
    (run[h].state = "awaiting" /\ run[h].timedOut
       /\ child[h].state = "running") =>
      /\ child[h].sigterm
      /\ run[h].killHandle = {} => child[h].sigkill

\* C4: a text hook with exit_code_map {"0": "success"} whose child was
\* killed by a signal (exit code null) gets verdict non-blocking-error.
SignalKillIsNonBlocking ==
  \A h \in Hooks :
    (/\ results[h].done
     /\ results[h].signal # "none"
     /\ hooks[h].outputFormat = "text") =>
      results[h].flowControl = "non-blocking-error"

\* C6: a run that ends on its own (not on a signal or an uncaught
\* exception) exits with code 2 if some hook's verdict is blocking-error
\* and with code 0 otherwise.
ExitCodeIffBlocking ==
  (pc = "exited" /\ exitPath \in {"normal", "drain"}) =>
    exitCode = IF \E h \in Hooks : /\ results[h].done
                                   /\ results[h].flowControl = "blocking-error"
               THEN EXIT_BLOCKING_ERROR ELSE EXIT_SUCCESS

DeterministicWinner ==
  (pc = "exited" /\ exitPath = "normal") =>
    LET before(a, b) ==
          LET sa == severityOrder(results[a].flowControl)
              sb == severityOrder(results[b].flowControl)
              pa == priorityOf(hooks[a])
              pb == priorityOf(hooks[b])
          IN  \/ sa < sb
              \/ sa = sb /\ pa < pb
              \/ sa = sb /\ pa = pb /\ hooks[a].name < hooks[b].name
        best == CHOOSE a \in Hooks : \A b \in Hooks \ {a} : before(a, b)
    IN  /\ winner = hooks[best].name
        /\ exitCode = outputResult(results[best]).code
        /\ emitted = outputResult(results[best]).stderr

\* C7 witness: two hooks tie on verdict and priority, the later one in the
\* configuration finished first, and the earlier one wins
DeterministicWinnerWitness ==
  /\ pc = "exited"
  /\ exitPath = "normal"
  /\ Len(finished) >= 2
  /\ \E a, b \in Hooks :
       /\ hooks[a].name < hooks[b].name
       /\ results[a].flowControl = "blocking-error"
       /\ results[b].flowControl = "blocking-error"
       /\ priorityOf(hooks[a]) = priorityOf(hooks[b])
       /\ finished[1] = b
       /\ winner = hooks[a].name

\* C11: when spawning a hook's command fails, that hook's run ends with a
\* synthetic result whose verdict is non-blocking-error, every sibling hook
\* still runs to completion, and the invocation ends through its normal
\* exit with all results in hand.
SpawnFailureIsContained ==
  (pc = "exited" /\ exitPath \in {"normal", "drain"}) =>
    \A h \in Hooks :
      child[h].state \in {"none", "failed"} =>
        /\ results[h].done
        /\ results[h].flowControl = "non-blocking-error"
        /\ \A g \in Hooks : results[g].done
        /\ exitPath = "normal"

\* C12: when some existing configuration file is not valid JSON or holds a
\* hook that validation rejects, no hook is ever spawned and the invocation
\* exits with code 1.
ConfigErrorIsFatal ==
  (\E l \in LayerNames :
     \/ layers[l].kind = "malformed"
     \/ \E i \in DOMAIN layers[l].hooks : layers[l].hooks[i].command = <<>>) =>
    /\ \A h \in DOMAIN child : child[h].state = "none"
    /\ pc = "exited" => exitCode = 1

\* C13: with every existing configuration file valid and free of repeated
\* names, each name defined in some file is considered with the definition
\* of the highest file that defines it: once the hooks are selected, the
\* hook of that definition is among them when it lists the event.
LayersAreMerged ==
  LET wellFormed(l) ==
        /\ layers[l].kind # "malformed"
        /\ \A i, j \in DOMAIN layers[l].hooks :
             /\ layers[l].hooks[i].command # <<>>
             /\ i # j => layers[l].hooks[i].name # layers[l].hooks[j].name
      rank(l) == CASE l = "global" -> 1 [] l = "project" -> 2 [] l = "local" -> 3
      defines(l, n) == \E i \in DOMAIN layers[l].hooks : layers[l].hooks[i].name = n
      definition(l, n) ==
        layers[l].hooks[CHOOSE i \in DOMAIN layers[l].hooks :
                          layers[l].hooks[i].name = n]
      considered == \/ pc \in {"start", "awaiting"}
                    \/ pc = "exited" /\ exitPath \in {"noconfig", "nohooks", "normal"}
  IN  (considered /\ \A l \in LayerNames : wellFormed(l)) =>
        \A n \in 1..NumHooks : \A l \in LayerNames :
          (/\ defines(l, n)
           /\ \A k \in LayerNames : defines(k, n) => rank(k) <= rank(l)
           /\ stdin.event.hook_event_name \in definition(l, n).events) =>
            \E i \in DOMAIN hooks : hooks[i] = definition(l, n)

\* C14: the configuration a run operates on holds no two hooks of the same
\* name.
UniqueNames ==
  \A i, j \in DOMAIN config : i # j => config[i].name # config[j].name

LoopGuardSkipsHooks ==
  (/\ stdin.kind = "json"
   /\ stdin.event.hook_event_name \in {"Stop", "SubagentStop"}
   /\ stdin.event.stop_hook_active = "true") =>
    /\ pc \in {"read", "exited"}
    /\ \A h \in DOMAIN child : child[h].state = "none"
    /\ sessionLog = {}
    /\ (pc = "exited" /\ exitPath # "input") => exitCode = EXIT_SUCCESS

\* C16 witness: a SubagentStop event with stop_hook_active ended the run
\* through the guard although the configuration has a hook for it
LoopGuardSkipsHooksWitness ==
  /\ pc = "exited"
  /\ exitPath = "guard"
  /\ stdin.event.hook_event_name = "SubagentStop"
  /\ \E i \in DOMAIN layers["project"].hooks :
       "SubagentStop" \in layers["project"].hooks[i].events
  /\ exitCode = EXIT_SUCCESS

\* C17: when the payload never arrives, is not JSON, or lacks one of
\* hook_event_name, session_id, transcript_path and cwd, no hook is ever
\* spawned and the invocation exits with code 1.
InputErrorIsFatal ==
  (\/ stdin.kind \in {"silent", "garbage"}
   \/ \E f \in {"hook_event_name", "session_id", "transcript_path", "cwd"} :
        stdin.event[f] = Absent) =>
    /\ \A h \in DOMAIN child : child[h].state = "none"
    /\ pc = "exited" => exitCode = 1

\* C18: no child is ever signalled by ChildProcess.kill, which addresses
\* the child alone and bypasses the process manager: every signal a child
\* was sent went to its process group through ProcessManager.
SignalsThroughSupervisor ==
  \A h \in Hooks :
    (child[h].sigterm \/ child[h].sigkill) => ~child[h].killed

\* C19: when the cleanup started by a termination signal has returned,
\* every child that was tracked has been sent SIGTERM, and none of them is
\* still running without having been sent SIGKILL.
CleanupKillsSurvivors ==
  (pc = "exited" /\ exitPath = "signal") =>
    \A h \in Hooks :
      child[h].state = "running" => child[h].sigterm /\ child[h].sigkill

\* C20: once shutdown has started, by a termination signal or by a call of
\* HookExecutor.shutdown, no later step spawns a child.
NoSpawnAfterShutdown ==
  [][(shutdownInitiated \/ shutdownCalled) =>
       \A h \in Hooks : child'[h].state # "none" => child[h].state # "none"]_vars

\* C21: at any time at most one tryCleanup call is running performCleanup,
\* also when the lock file the calls found was stale and has been deleted
\* and written again.
OneCleanerAtATime ==
  Cardinality({c \in DOMAIN cleaner : cleaner[c] = "cleaning"}) <= 1

\* C22: when performCleanup has completed without a filesystem error, no
\* session log file older than 7 days is left, the files that are left
\* total at most 500 MB, and a file that is not older than 7 days is gone
\* only if every file older than it is gone too and the files not yet
\* deleted when the sweep came to it (oldest first, equal ages in directory
\* order) totalled more than 500 MB.
RetentionHolds ==
  (sweep.phase = "done" /\ ~sweep.errors) =>
    LET F == DOMAIN files
        age(f) == SweepNow - files[f].mtime
        before(g, f) == \/ files[g].mtime < files[f].mtime
                        \/ files[g].mtime = files[f].mtime /\ g < f
        sizeOf(S) ==
          LET RECURSIVE sum(_)
              sum(T) == IF T = {} THEN 0
                        ELSE LET x == CHOOSE y \in T : TRUE
                             IN  files[x].size + sum(T \ {x})
          IN  sum(S)
    IN  /\ \A f \in F : age(f) > 7 => ~files[f].exists
        /\ sizeOf({f \in F : files[f].exists}) <= 5
        /\ \A f \in F :
             (~files[f].exists /\ age(f) <= 7) =>
               /\ \A g \in F : files[g].mtime < files[f].mtime => ~files[g].exists
               /\ sizeOf({g \in F : ~before(g, f) \/ files[g].exists}) > 5

\* C22 witness: a sweep without errors removed a file of two days to get
\* under the total and kept a younger one
RetentionHoldsWitness ==
  /\ sweep.phase = "done"
  /\ ~sweep.errors
  /\ \E f, g \in DOMAIN files :
       /\ files[f].mtime = 8
       /\ ~files[f].exists
       /\ files[g].mtime = 9
       /\ files[g].exists

\* C23: a failure while the session log is written or while the retention
\* cleanup runs (mkdir, append, lock or unlink errors) changes no hook's
\* result once execute has returned it and does not make execute reject,
\* and the invocation exits with the code of the winning verdict: 2 when
\* some result is blocking-error, 0 otherwise.
LoggingIsBestEffort ==
  [][/\ \A h \in Hooks : results[h].done => results'[h] = results[h]
     /\ pc' = "exited" =>
          /\ winner' = determineFinalResult(collectResults).hook.name
          /\ exitCode' =
               IF \E h \in Hooks : results[h].flowControl = "blocking-error"
               THEN EXIT_BLOCKING_ERROR ELSE EXIT_SUCCESS]_vars

\* C23 witness: the append of a blocking hook's line failed, the cleanup
\* that hook's execute started could not remove its lock file, and the
\* invocation exited with code 2 for that hook
LoggingIsBestEffortWitness ==
  /\ pc = "exited"
  /\ exitCode = EXIT_BLOCKING_ERROR
  /\ \E h \in Hooks :
       /\ logStep[h] = "failed"
       /\ results[h].flowControl = "blocking-error"
       /\ winner = hooks[h].name
       /\ cleaner[h] = "done"
       /\ lock.exists
       /\ lock.owner = h

\* C24: the lines of one invocation's hook runs stand in the session file
\* in the order in which the runs completed: when run A completed before
\* run B and both lines are in the file, A's line precedes B's line.
LogLinesInCompletionOrder ==
  LET place(seq, h) == CHOOSE k \in DOMAIN seq : seq[k] = h
  IN  \A i, j \in DOMAIN logFile :
        i < j => place(finished, logFile[i]) < place(finished, logFile[j])

\* C30: when the orchestrator process has exited and no filesystem
\* operation failed, the session file holds exactly one line for every
\* hook run that completed.
OneLinePerCompletedRun ==
  (pc = "exited" /\ \A h \in Hooks : logStep[h] # "failed") =>
    \A h \in Hooks :
      (results[h].done /\ child[h].state # "none") =>
        Cardinality({k \in DOMAIN logFile : logFile[k] = h}) = 1

\* C25: on a StreamLimiter with cap N the overflow callback is invoked
\* exactly once, at the first write that takes the cumulative byte count
\* above N, and at no other write; from that write on nothing is
\* forwarded downstream.
LimiterCallsBackOnce ==
  LET RECURSIVE upTo(_)
      upTo(k) == IF k = 0 THEN 0 ELSE sl.writes[k] + upTo(k - 1)
      over == {k \in DOMAIN sl.writes : upTo(k) > sl.maxBytes}
      first == CHOOSE k \in over : \A j \in over : k <= j
  IN  IF over = {}
      THEN sl.calls = <<>>
      ELSE /\ sl.calls = <<first>>
           /\ \A k \in DOMAIN sl.forwarded : k >= first => sl.forwarded[k] = 0

\* C25 witness: the count reached the cap exactly, the next write exceeded
\* it and called back, and two more chunks were written after that
LimiterCallsBackOnceWitness ==
  /\ sl.maxBytes = MaxOutputBytes
  /\ Len(sl.writes) = NumWrites
  /\ sl.writes[1] = MaxOutputBytes
  /\ sl.forwarded[1] = MaxOutputBytes
  /\ sl.calls = <<2>>
  /\ sl.writes[3] > 0
  /\ sl.writes[4] > 0

\* C26: the children of the selected hooks are started in ascending
\* priority order, a missing priority counting as 100, and hooks of equal
\* priority are started in the order in which the configuration lists
\* them.
StartedInPriorityOrder ==
  \A i, j \in DOMAIN spawned :
    i < j =>
      LET a == hooks[spawned[i]]
          b == hooks[spawned[j]]
          pa == IF a.priority = <<>> THEN 100 ELSE a.priority[1]
          pb == IF b.priority = <<>> THEN 100 ELSE b.priority[1]
      IN  \/ pa < pb
          \/ pa = pb /\ a.name < b.name

\* C26 witness: the configuration lists a hook without priority before a
\* hook of priority 1, and the child of the latter was started first
StartedInPriorityOrderWitness ==
  /\ Len(spawned) = Len(config)
  /\ \E i, j \in DOMAIN config :
       /\ i < j
       /\ config[i].priority = <<>>
       /\ config[j].priority = <<1>>
       /\ \E k, l \in DOMAIN spawned :
            k < l /\ hooks[spawned[k]] = config[j] /\ hooks[spawned[l]] = config[i]

\* C27: when the invocation ends with a winning verdict of success, what
\* it wrote to its standard output is the winning hook's stdout, raw or as
\* the JSON derived from it, or nothing: never what the hook wrote to its
\* stderr.
StdoutCarriesOnlyHookStdout ==
  (pc = "exited" /\ exitPath = "normal"
     /\ \A h \in Hooks : results[h].flowControl = "success") =>
    printed \in {"nothing", "stdout", "json"}

\* C28: when some hook file of the bundle named on the command line is
\* invalid, the install command fails and the configuration file is as it
\* was before the command, without any of the bundle's hooks.
BundleInstallAllOrNothing ==
  LET bundle == IF installRun.builtin # NoBundle THEN installRun.builtin
                ELSE installRun.local
  IN  (installRun.status # "none" /\ \E k \in DOMAIN bundle : ~bundle[k]) =>
        /\ installRun.status = "failed"
        /\ installFile = installRun.before

\* C29: after any sequence of addHook, removeHook and updateHook calls
\* that started from a configuration with unique names, the configuration
\* has unique names; an add of an existing name and a rename to an existing
\* name threw; and the object passed to the last call is as it was before
\* the call, whether the call threw or not.
WriterKeepsNamesUnique ==
  LET taken(n) == \E i \in DOMAIN writer.given : writer.given[i].name = n
  IN  /\ \A i, j \in DOMAIN writer.config :
           i # j => writer.config[i].name # writer.config[j].name
      /\ (writer.op = "addHook" /\ taken(writer.hook.name)) => writer.threw
      /\ (/\ writer.op = "updateHook"
          /\ writer.hook.name # writer.name
          /\ taken(writer.hook.name)) => writer.threw
      /\ writer.passed = writer.given

\* C29 witness: with two hooks configured, the rename of one to the name
\* of the other threw and left both as they were
WriterKeepsNamesUniqueWitness ==
  /\ writer.op = "updateHook"
  /\ writer.threw
  /\ Len(writer.given) = 2
  /\ \E i \in DOMAIN writer.given : writer.given[i].name = writer.name
  /\ writer.hook.name # writer.name
  /\ writer.config = writer.given

====
